---- MODULE Spec2Model ----
(***************************************************************************)
(* Request-scoped key/value store of package context (context.go).         *)
(*                                                                         *)
(* The store is an array of numberOfBags databags.  Every databag owns a   *)
(* sync.RWMutex, a map from *http.Request to the request's attribute map   *)
(* (data) and a map from *http.Request to a creation time (datat).         *)
(* Go maps are reference objects: b.data[r] holds a reference to a map     *)
(* object, modelled as an entry of the variable heap.  Every function of   *)
(* the package is modelled statement by statement, the program counter of  *)
(* a goroutine naming the source line it is about to execute.              *)
(***************************************************************************)
EXTENDS Integers, FiniteSets, Sequences, TLC

\* ------------------------------------------------------------------ bounds
NumThreads == 2      \* goroutines calling into the package
NumRequests == 3     \* distinct *http.Request values in use
NumKeys == 2         \* distinct attribute keys
NumValues == 1       \* distinct non-nil attribute values
MaxTime == 2         \* distinct readings of time.Now().Unix()
MaxCalls == 3        \* calls the goroutines make (package functions, handler
                     \* invocations, writes into a returned map)
NumFairKeys == 1     \* distinct attribute keys in the runs checked for
                     \* termination

\* ------------------------------------------------------- program constants
numberOfBags == 128

\* --------------------------------------------------------------- universes
Threads == 1..NumThreads
Bags == 0..(numberOfBags - 1)

\* The i-th request address.  *http.Request values are 8-byte aligned; odd
\* numbered requests fall into the same databag, even numbered ones too.
RequestAddr(i) == 8 * (1 + ((i + 1) % 2)) + (8 * numberOfBags) * (i \div 2)

Requests == { RequestAddr(i) : i \in 1..NumRequests }
Keys == 1..NumKeys
Nil == 0                         \* the nil interface{} value
Values == {Nil} \cup (1..NumValues)
Times == 1..MaxTime
NoRequest == 0                   \* the nil *http.Request (no invocation)
NoTime == 0                      \* time.Now() has not been read

\* References to map objects.  A map made by Set for request r is ctx(r), a
\* map made by GetAll/GetAllOk in goroutine t is result(t).
NilMap == <<"nil", 0>>
CtxRef(r) == <<"ctx", r>>
ResultRef(t) == <<"result", t>>
EmptyMap == [k \in {} |-> Nil]

VARIABLES
    data,      \* data[<<b, r>>]  : bags[b].data[r], a map reference; the pairs
               \*   in the domain are the entries of the maps bags[b].data
    datat,     \* datat[<<b, r>>] : bags[b].datat[r], an int64; likewise
    mutex,     \* the holders of the locks bags[b].mutex: <<b, t, "W">> when
               \*   t holds it for writing, <<b, t, "R">> for reading
    heap,      \* the live map objects: reference -> (key -> value)
    pc,        \* pc[t]    : the statement goroutine t executes next
    req,       \* req[t]   : parameter r of the call in progress
    key,       \* key[t]   : parameter key of the call in progress
    val,       \* val[t]   : parameter val of the call in progress
    unix,      \* unix[t]  : what time.Now().Unix() has returned to the call in
               \*   progress (NoTime when the call has not read the clock)
    value,     \* value[t] : the value Get, GetOk is about to return
    ok,        \* ok[t]    : the bool GetOk, GetAllOk is about to return
    result,    \* result[t]: local variable result of GetAll, GetAllOk, and the
               \*   map the caller holds once they have returned it
    hreq,      \* hreq[t]  : request of the ClearHandler invocation t runs
    hexit,     \* hexit[t] : how the wrapped handler left ServeHTTP
    calls,     \* number of calls the goroutines have made so far
    lin,       \* history: the tables (request -> (key -> value)) that running
               \*   the Set, Delete and Clear calls one after the other, in the
               \*   order in which they got their lock, has produced
    cleared    \* history: cleared[<<b, r>>] is the table and the creation time
               \*   that clear has last deleted from bags[b] for r

vars == <<data, datat, mutex, heap, pc, req, key, val, unix, value, ok, result,
          hreq, hexit, calls, lin, cleared>>

store == <<data, datat, heap>>
locals == <<req, key, val, unix>>
returns == <<value, ok, result>>
handler == <<hreq, hexit>>

\* ------------------------------------------------------------ Go map access
\* m[k] on a Go map: the zero value when k is not a key.
MapGet(m, k, zero) == IF k \in DOMAIN m THEN m[k] ELSE zero

\* m[k] = v
MapPut(m, k, v) == [x \in (DOMAIN m) \cup {k} |-> IF x = k THEN v ELSE m[x]]

\* delete(m, k)
MapDelete(m, k) == [x \in (DOMAIN m) \ {k} |-> m[x]]

\* The contents of the map object a reference points to (a nil map reads as
\* an empty map).
Deref(ref) == IF ref = NilMap THEN EmptyMap ELSE heap[ref]

\* Mutant: the databag is chosen from the address without its alignment bits.
requestBag_Shifted(r) == (r \div 8) % numberOfBags

\* func requestBag(r *http.Request) *databag
requestBag(r) == r % numberOfBags

\* result := make(map, len(context)); for k, v := range context { result[k] = v }
CopyOf(context) == [k \in DOMAIN context |-> context[k]]

\* What the body of Get computes from the store, between RLock and RUnlock:
\*   if ctx := b.data[r]; ctx != nil { value := ctx[key]; return value }; return nil
Get(r, k) ==
    LET b == requestBag(r)
        ctx == MapGet(data, <<b, r>>, NilMap)
    IN  IF ctx # NilMap THEN MapGet(Deref(ctx), k, Nil) ELSE Nil

\* Mutant: GetOk takes a nil value for a missing key.
GetOk_NilIsAbsent(r, k) ==
    LET b == requestBag(r)
        v == MapGet(Deref(MapGet(data, <<b, r>>, NilMap)), k, Nil)
    IN  [value |-> v, ok |-> v # Nil]

\* What the body of GetOk computes from the store:
\*   if _, ok := b.data[r]; ok { value, ok := b.data[r][key]; return value, ok }
\*   return nil, false
GetOk(r, k) ==
    LET b == requestBag(r)
    IN  IF <<b, r>> \in DOMAIN data
        THEN [value |-> MapGet(Deref(data[<<b, r>>]), k, Nil),
              ok |-> k \in DOMAIN Deref(data[<<b, r>>])]
        ELSE [value |-> Nil, ok |-> FALSE]

\* What the body of GetAll computes from the store: the contents m of the map
\* it returns, isnil when it returns the nil map:
\*   if context, ok := b.data[r]; ok { result := copy of context; return result }
\*   return nil
GetAll(r) ==
    LET b == requestBag(r)
    IN  IF <<b, r>> \in DOMAIN data
        THEN [m |-> CopyOf(Deref(data[<<b, r>>])), isnil |-> FALSE]
        ELSE [m |-> EmptyMap, isnil |-> TRUE]

\* Mutant: GetAllOk reports every request as registered.
GetAllOk_AlwaysOk(r) ==
    LET b == requestBag(r)
        context == MapGet(data, <<b, r>>, NilMap)
    IN  [m |-> CopyOf(Deref(context)), ok |-> TRUE]

\* What the body of GetAllOk computes from the store:
\*   context, ok := b.data[r]; result := copy of context; return result, ok
GetAllOk(r) ==
    LET b == requestBag(r)
        context == MapGet(data, <<b, r>>, NilMap)
    IN  [m |-> CopyOf(Deref(context)), ok |-> <<b, r>> \in DOMAIN data]

\* func init()
Init ==
    /\ data = EmptyMap
    /\ datat = EmptyMap
    /\ mutex = {}
    /\ heap = EmptyMap
    /\ pc = [t \in Threads |-> "idle"]
    /\ req = [t \in Threads |-> NoRequest]
    /\ key = [t \in Threads |-> Nil]
    /\ val = [t \in Threads |-> Nil]
    /\ unix = [t \in Threads |-> NoTime]
    /\ value = [t \in Threads |-> Nil]
    /\ ok = [t \in Threads |-> FALSE]
    /\ result = [t \in Threads |-> NilMap]
    /\ hreq = [t \in Threads |-> NoRequest]
    /\ hexit = [t \in Threads |-> "none"]
    /\ calls = 0
    /\ lin = EmptyMap
    /\ cleared = EmptyMap


\* --------------------------------------------- the calls run one at a time
\* The tables after Set(r, k, v), Delete(r, k), Clear(r) has run alone on the
\* tables a: what lines 43-47, 111-113, 131 do when nothing runs in between.
AbsSet(a, r, k, v) == MapPut(a, r, MapPut(MapGet(a, r, EmptyMap), k, v))
AbsDelete(a, r, k) == IF r \in DOMAIN a THEN MapPut(a, r, MapDelete(a[r], k)) ELSE a
AbsClear(a, r) == MapDelete(a, r)

\* ------------------------------------------------------------- sync.RWMutex
\* mutex.Lock() returns: no writer and no reader holds the lock.
CanLock(b) == \A h \in mutex : h[1] # b

\* Mutant: the lock is a plain mutex: RLock waits for readers too.
CanRLock_Exclusive(b) == \A h \in mutex : h[1] # b

\* mutex.RLock() returns: no writer holds the lock.  (sync.RWMutex also makes
\* RLock wait while a Lock call is pending; letting it pass only adds
\* interleavings.)
CanRLock(b) == \A h \in mutex : ~(h[1] = b /\ h[3] = "W")

Lock(b, t) == mutex' = mutex \cup {<<b, t, "W">>}
Unlock(b, t) == mutex' = mutex \ {<<b, t, "W">>}
RLock(b, t) == mutex' = mutex \cup {<<b, t, "R">>}
RUnlock(b, t) == mutex' = mutex \ {<<b, t, "R">>}

\* ------------------------------------------------------------ the callers
\* Where a goroutine is between two calls: outside any ClearHandler
\* invocation ("idle") or inside the wrapped handler's ServeHTTP ("handler").
Home(t) == IF hreq[t] = NoRequest THEN "idle" ELSE "handler"

\* The requests a goroutine can pass: the wrapped handler is handed r and
\* works on r; code outside a handler invocation can pass any request.
Callable(t) == IF hreq[t] = NoRequest THEN Requests ELSE {hreq[t]}

\* Map objects no variable refers to any more are reclaimed.
Reachable(h, d, res) ==
    LET live == { d[e] : e \in DOMAIN d } \cup { res[t] : t \in Threads }
    IN  [ref \in (DOMAIN h) \cap live |-> h[ref]]

\* A call of a package function: the parameters are bound, the results of the
\* goroutine's previous call are dropped, b = requestBag(r) is computed.
Enter(t, label, r, k, v) ==
    /\ pc[t] \in {"idle", "handler"}
    /\ calls < MaxCalls
    /\ r \in Callable(t)
    /\ pc' = [pc EXCEPT ![t] = label]
    /\ req' = [req EXCEPT ![t] = r]
    /\ key' = [key EXCEPT ![t] = k]
    /\ val' = [val EXCEPT ![t] = v]
    /\ unix' = [unix EXCEPT ![t] = NoTime]
    /\ value' = [value EXCEPT ![t] = Nil]
    /\ ok' = [ok EXCEPT ![t] = FALSE]
    /\ result' = [result EXCEPT ![t] = NilMap]
    /\ heap' = Reachable(heap, data, result')
    /\ calls' = calls + 1
    /\ UNCHANGED <<data, datat, mutex, handler, lin, cleared>>

\* A return to the caller: the frame of the call (r, key, val) is gone.
Leave(t) ==
    /\ pc' = [pc EXCEPT ![t] = Home(t)]
    /\ req' = [req EXCEPT ![t] = NoRequest]
    /\ key' = [key EXCEPT ![t] = Nil]
    /\ val' = [val EXCEPT ![t] = Nil]
    /\ unix' = [unix EXCEPT ![t] = NoTime]
    /\ value' = [value EXCEPT ![t] = Nil]
    /\ ok' = [ok EXCEPT ![t] = FALSE]

\* ---------------------------------------------------------------------- Set
CallSet(t, r, k, v) == Enter(t, "Set42", r, k, v)

\* b.mutex.Lock()
SetLock(t) ==
    /\ pc[t] = "Set42"
    /\ CanLock(requestBag(req[t]))
    /\ Lock(requestBag(req[t]), t)
    /\ pc' = [pc EXCEPT ![t] = "Set43"]
    /\ lin' = AbsSet(lin, req[t], key[t], val[t])
    /\ UNCHANGED <<store, locals, returns, handler, calls, cleared>>

\* Mutant: Set makes the table but records no creation time.
SetMake_NoStamp(t) ==
    LET r == req[t]
        b == requestBag(r)
    IN  /\ pc[t] = "Set43"
        /\ IF MapGet(data, <<b, r>>, NilMap) = NilMap
           THEN /\ data' = MapPut(data, <<b, r>>, CtxRef(r))
                /\ heap' = MapPut(heap, CtxRef(r), EmptyMap)
           ELSE UNCHANGED <<data, heap>>
        /\ pc' = [pc EXCEPT ![t] = "Set47"]
        /\ UNCHANGED <<datat, mutex, locals, returns, handler, calls, lin, cleared>>

\* Mutant: the creation time is recorded outside the if, by every Set.
SetMake_AlwaysStamps(t) ==
    LET r == req[t]
        b == requestBag(r)
    IN  /\ pc[t] = "Set43"
        /\ IF MapGet(data, <<b, r>>, NilMap) = NilMap
           THEN /\ data' = MapPut(data, <<b, r>>, CtxRef(r))
                /\ heap' = MapPut(heap, CtxRef(r), EmptyMap)
           ELSE UNCHANGED <<data, heap>>
        /\ pc' = [pc EXCEPT ![t] = "Set45"]
        /\ UNCHANGED <<datat, mutex, locals, returns, handler, calls, lin, cleared>>

\* if b.data[r] == nil { b.data[r] = make(map[interface{}]interface{})
SetMake(t) ==
    LET r == req[t]
        b == requestBag(r)
    IN  /\ pc[t] = "Set43"
        /\ IF MapGet(data, <<b, r>>, NilMap) = NilMap
           THEN /\ data' = MapPut(data, <<b, r>>, CtxRef(r))
                /\ heap' = MapPut(heap, CtxRef(r), EmptyMap)
                /\ pc' = [pc EXCEPT ![t] = "Set45"]
           ELSE /\ pc' = [pc EXCEPT ![t] = "Set47"]
                /\ UNCHANGED <<data, heap>>
        /\ UNCHANGED <<datat, mutex, locals, returns, handler, calls, lin, cleared>>

\* b.datat[r] = time.Now().Unix() }
SetStamp(t, now) ==
    LET r == req[t]
        b == requestBag(r)
    IN  /\ pc[t] = "Set45"
        /\ unix' = [unix EXCEPT ![t] = now]
        /\ datat' = MapPut(datat, <<b, r>>, unix'[t])
        /\ pc' = [pc EXCEPT ![t] = "Set47"]
        /\ UNCHANGED <<data, heap, mutex, req, key, val, returns, handler, calls, lin, cleared>>

\* Mutant: the store keeps the value a key already has.
SetStore_KeepsFirst(t) ==
    LET r == req[t]
        b == requestBag(r)
    IN  /\ pc[t] = "Set47"
        /\ heap' = [heap EXCEPT ![data[<<b, r>>]] =
                        IF key[t] \in DOMAIN @ THEN @ ELSE MapPut(@, key[t], val[t])]
        /\ pc' = [pc EXCEPT ![t] = "Set48"]
        /\ UNCHANGED <<data, datat, mutex, locals, returns, handler, calls, lin, cleared>>

\* Mutant: a nil value is not stored.
SetStore_SkipsNil(t) ==
    LET r == req[t]
        b == requestBag(r)
    IN  /\ pc[t] = "Set47"
        /\ heap' = [heap EXCEPT ![data[<<b, r>>]] =
                        IF val[t] = Nil THEN @ ELSE MapPut(@, key[t], val[t])]
        /\ pc' = [pc EXCEPT ![t] = "Set48"]
        /\ UNCHANGED <<data, datat, mutex, locals, returns, handler, calls, lin, cleared>>

\* b.data[r][key] = val
SetStore(t) ==
    LET r == req[t]
        b == requestBag(r)
    IN  /\ pc[t] = "Set47"
        /\ heap' = [heap EXCEPT ![data[<<b, r>>]] = MapPut(@, key[t], val[t])]
        /\ pc' = [pc EXCEPT ![t] = "Set48"]
        /\ UNCHANGED <<data, datat, mutex, locals, returns, handler, calls, lin, cleared>>

\* b.mutex.Unlock()
SetUnlock(t) ==
    /\ pc[t] = "Set48"
    /\ Unlock(requestBag(req[t]), t)
    /\ Leave(t)
    /\ UNCHANGED <<store, result, handler, calls, lin, cleared>>

\* ---------------------------------------------------------------------- Get
CallGet(t, r, k) == Enter(t, "Get54", r, k, Nil)

\* Mutant: Get reads without taking the read lock.
GetRLock_NoLock(t) ==
    /\ pc[t] = "Get54"
    /\ pc' = [pc EXCEPT ![t] = "Get55"]
    /\ UNCHANGED <<store, mutex, locals, returns, handler, calls, lin, cleared>>

\* b.mutex.RLock()
GetRLock(t) ==
    /\ pc[t] = "Get54"
    /\ CanRLock(requestBag(req[t]))
    /\ RLock(requestBag(req[t]), t)
    /\ pc' = [pc EXCEPT ![t] = "Get55"]
    /\ UNCHANGED <<store, locals, returns, handler, calls, lin, cleared>>

\* if ctx := b.data[r]; ctx != nil { value := ctx[key]
GetRead(t) ==
    LET r == req[t]
        b == requestBag(r)
        ctx == MapGet(data, <<b, r>>, NilMap)
    IN  /\ pc[t] = "Get55"
        /\ value' = [value EXCEPT ![t] = Get(r, key[t])]
        /\ pc' = [pc EXCEPT ![t] = IF ctx # NilMap THEN "Get57" ELSE "Get60"]
        /\ UNCHANGED <<store, mutex, locals, ok, result, handler, calls, lin, cleared>>

\* Mutant: the return nil path of Get leaves without RUnlock.
GetRUnlock_OnlyWithValue(t) ==
    /\ pc[t] \in {"Get57", "Get60"}
    /\ IF pc[t] = "Get57" THEN RUnlock(requestBag(req[t]), t) ELSE UNCHANGED mutex
    /\ Leave(t)
    /\ UNCHANGED <<store, result, handler, calls, lin, cleared>>

\* b.mutex.RUnlock(); return value   /   b.mutex.RUnlock(); return nil
GetRUnlock(t) ==
    /\ pc[t] \in {"Get57", "Get60"}
    /\ RUnlock(requestBag(req[t]), t)
    /\ Leave(t)
    /\ UNCHANGED <<store, result, handler, calls, lin, cleared>>

\* -------------------------------------------------------------------- GetOk
CallGetOk(t, r, k) == Enter(t, "GetOk67", r, k, Nil)

\* b.mutex.RLock()
GetOkRLock(t) ==
    /\ pc[t] = "GetOk67"
    /\ CanRLock(requestBag(req[t]))
    /\ RLock(requestBag(req[t]), t)
    /\ pc' = [pc EXCEPT ![t] = "GetOk68"]
    /\ UNCHANGED <<store, locals, returns, handler, calls, lin, cleared>>

\* if _, ok := b.data[r]; ok { value, ok := b.data[r][key]
GetOkRead(t) ==
    LET r == req[t]
        b == requestBag(r)
    IN  /\ pc[t] = "GetOk68"
        /\ value' = [value EXCEPT ![t] = GetOk(r, key[t]).value]
        /\ ok' = [ok EXCEPT ![t] = GetOk(r, key[t]).ok]
        /\ pc' = [pc EXCEPT ![t] =
                    IF <<b, r>> \in DOMAIN data THEN "GetOk70" ELSE "GetOk73"]
        /\ UNCHANGED <<store, mutex, locals, result, handler, calls, lin, cleared>>

\* b.mutex.RUnlock(); return value, ok   /   b.mutex.RUnlock(); return nil, false
GetOkRUnlock(t) ==
    /\ pc[t] \in {"GetOk70", "GetOk73"}
    /\ RUnlock(requestBag(req[t]), t)
    /\ Leave(t)
    /\ UNCHANGED <<store, result, handler, calls, lin, cleared>>


\* ------------------------------------------------------------------- GetAll
CallGetAll(t, r) == Enter(t, "GetAll80", r, Nil, Nil)

\* b.mutex.RLock()
GetAllRLock(t) ==
    /\ pc[t] = "GetAll80"
    /\ CanRLock(requestBag(req[t]))
    /\ RLock(requestBag(req[t]), t)
    /\ pc' = [pc EXCEPT ![t] = "GetAll81"]
    /\ UNCHANGED <<store, locals, returns, handler, calls, lin, cleared>>

\* Mutant: GetAll returns the live map, not a copy of it.
GetAllCopy_Alias(t) ==
    LET r == req[t]
        b == requestBag(r)
    IN  /\ pc[t] = "GetAll81"
        /\ IF <<b, r>> \in DOMAIN data
           THEN /\ result' = [result EXCEPT ![t] = data[<<b, r>>]]
                /\ pc' = [pc EXCEPT ![t] = "GetAll86"]
           ELSE /\ pc' = [pc EXCEPT ![t] = "GetAll89"]
                /\ UNCHANGED result
        /\ UNCHANGED <<data, datat, heap, mutex, locals, value, ok, handler, calls, lin, cleared>>

\* if context, ok := b.data[r]; ok { result := make(...); for ... }
GetAllCopy(t) ==
    LET r == req[t]
        b == requestBag(r)
    IN  /\ pc[t] = "GetAll81"
        /\ IF ~GetAll(r).isnil
           THEN /\ heap' = MapPut(heap, ResultRef(t), GetAll(r).m)
                /\ result' = [result EXCEPT ![t] = ResultRef(t)]
                /\ pc' = [pc EXCEPT ![t] = "GetAll86"]
           ELSE /\ pc' = [pc EXCEPT ![t] = "GetAll89"]
                /\ UNCHANGED <<heap, result>>
        /\ UNCHANGED <<data, datat, mutex, locals, value, ok, handler, calls, lin, cleared>>

\* b.mutex.RUnlock(); return result   /   b.mutex.RUnlock(); return nil
GetAllRUnlock(t) ==
    /\ pc[t] \in {"GetAll86", "GetAll89"}
    /\ RUnlock(requestBag(req[t]), t)
    /\ Leave(t)
    /\ UNCHANGED <<store, result, handler, calls, lin, cleared>>

\* ----------------------------------------------------------------- GetAllOk
CallGetAllOk(t, r) == Enter(t, "GetAllOk97", r, Nil, Nil)

\* Mutant: GetAllOk copies the table without taking the read lock.
GetAllOkRLock_NoLock(t) ==
    /\ pc[t] = "GetAllOk97"
    /\ pc' = [pc EXCEPT ![t] = "GetAllOk98"]
    /\ UNCHANGED <<store, mutex, locals, returns, handler, calls, lin, cleared>>

\* b.mutex.RLock()
GetAllOkRLock(t) ==
    /\ pc[t] = "GetAllOk97"
    /\ CanRLock(requestBag(req[t]))
    /\ RLock(requestBag(req[t]), t)
    /\ pc' = [pc EXCEPT ![t] = "GetAllOk98"]
    /\ UNCHANGED <<store, locals, returns, handler, calls, lin, cleared>>

\* Mutant: GetAllOk registers a request it does not find.
GetAllOkCopy_Registers(t) ==
    LET r == req[t]
        b == requestBag(r)
    IN  /\ pc[t] = "GetAllOk98"
        /\ ok' = [ok EXCEPT ![t] = GetAllOk(r).ok]
        /\ data' = IF <<b, r>> \in DOMAIN data THEN data ELSE MapPut(data, <<b, r>>, CtxRef(r))
        /\ heap' = MapPut(IF <<b, r>> \in DOMAIN data THEN heap
                           ELSE MapPut(heap, CtxRef(r), EmptyMap),
                          ResultRef(t), GetAllOk(r).m)
        /\ result' = [result EXCEPT ![t] = ResultRef(t)]
        /\ pc' = [pc EXCEPT ![t] = "GetAllOk103"]
        /\ UNCHANGED <<datat, mutex, locals, value, handler, calls, lin, cleared>>

\* context, ok := b.data[r]; result := make(...); for k, v := range context {...}
GetAllOkCopy(t) ==
    LET r == req[t]
        b == requestBag(r)
    IN  /\ pc[t] = "GetAllOk98"
        /\ ok' = [ok EXCEPT ![t] = GetAllOk(r).ok]
        /\ heap' = MapPut(heap, ResultRef(t), GetAllOk(r).m)
        /\ result' = [result EXCEPT ![t] = ResultRef(t)]
        /\ pc' = [pc EXCEPT ![t] = "GetAllOk103"]
        /\ UNCHANGED <<data, datat, mutex, locals, value, handler, calls, lin, cleared>>

\* b.mutex.RUnlock(); return result, ok
GetAllOkRUnlock(t) ==
    /\ pc[t] = "GetAllOk103"
    /\ RUnlock(requestBag(req[t]), t)
    /\ Leave(t)
    /\ UNCHANGED <<store, result, handler, calls, lin, cleared>>

\* The caller writes m[k] = v into the map m it got from GetAll or GetAllOk
\* (a write into the nil map GetAll returns for an unknown request panics).
MutateResult(t, k, v) ==
    /\ pc[t] \in {"idle", "handler"}
    /\ calls < MaxCalls
    /\ result[t] # NilMap
    /\ heap' = [heap EXCEPT ![result[t]] = MapPut(@, k, v)]
    /\ calls' = calls + 1
    /\ UNCHANGED <<data, datat, mutex, pc, locals, returns, handler, lin, cleared>>

\* ------------------------------------------------------------------- Delete
CallDelete(t, r, k) == Enter(t, "Delete110", r, k, Nil)

\* b.mutex.Lock()
DeleteLock(t) ==
    /\ pc[t] = "Delete110"
    /\ CanLock(requestBag(req[t]))
    /\ Lock(requestBag(req[t]), t)
    /\ pc' = [pc EXCEPT ![t] = "Delete111"]
    /\ lin' = AbsDelete(lin, req[t], key[t])
    /\ UNCHANGED <<store, locals, returns, handler, calls, cleared>>

\* Mutant: Delete drops a table it has emptied.
DeleteKey_DropsEmpty(t) ==
    LET r == req[t]
        b == requestBag(r)
        ctx == MapGet(data, <<b, r>>, NilMap)
    IN  /\ pc[t] = "Delete111"
        /\ IF ctx # NilMap /\ MapDelete(heap[ctx], key[t]) = EmptyMap
           THEN /\ data' = MapDelete(data, <<b, r>>)
                /\ datat' = MapDelete(datat, <<b, r>>)
                /\ heap' = Reachable(heap, data', result)
           ELSE /\ heap' = IF ctx # NilMap
                           THEN [heap EXCEPT ![ctx] = MapDelete(@, key[t])]
                           ELSE heap
                /\ UNCHANGED <<data, datat>>
        /\ pc' = [pc EXCEPT ![t] = "Delete114"]
        /\ UNCHANGED <<mutex, locals, returns, handler, calls, lin, cleared>>

\* Mutant: Delete removes the request's whole table, not the key.
DeleteKey_WholeTable(t) ==
    LET r == req[t]
        b == requestBag(r)
    IN  /\ pc[t] = "Delete111"
        /\ data' = MapDelete(data, <<b, r>>)
        /\ heap' = Reachable(heap, data', result)
        /\ pc' = [pc EXCEPT ![t] = "Delete114"]
        /\ UNCHANGED <<datat, mutex, locals, returns, handler, calls, lin, cleared>>

\* if b.data[r] != nil { delete(b.data[r], key) }
DeleteKey(t) ==
    LET r == req[t]
        b == requestBag(r)
        ctx == MapGet(data, <<b, r>>, NilMap)
    IN  /\ pc[t] = "Delete111"
        /\ IF ctx # NilMap
           THEN heap' = [heap EXCEPT ![ctx] = MapDelete(@, key[t])]
           ELSE UNCHANGED heap
        /\ pc' = [pc EXCEPT ![t] = "Delete114"]
        /\ UNCHANGED <<data, datat, mutex, locals, returns, handler, calls, lin, cleared>>

\* b.mutex.Unlock()
DeleteUnlock(t) ==
    /\ pc[t] = "Delete114"
    /\ Unlock(requestBag(req[t]), t)
    /\ Leave(t)
    /\ UNCHANGED <<store, result, handler, calls, lin, cleared>>

\* -------------------------------------------------------------------- Clear
CallClear(t, r) == Enter(t, "Clear123", r, Nil, Nil)

\* b.mutex.Lock(); clear(r) is entered
ClearLock(t) ==
    /\ pc[t] = "Clear123"
    /\ CanLock(requestBag(req[t]))
    /\ Lock(requestBag(req[t]), t)
    /\ pc' = [pc EXCEPT ![t] = "clear131"]
    /\ lin' = AbsClear(lin, req[t])
    /\ UNCHANGED <<store, locals, returns, handler, calls, cleared>>

\* Mutant: clear empties the databag's data map (as the disabled Purge does).
clearData_WholeBag(t) ==
    LET r == req[t]
        b == requestBag(r)
    IN  /\ pc[t] = "clear131"
        /\ data' = [e \in {x \in DOMAIN data : x[1] # b} |-> data[e]]
        /\ heap' = Reachable(heap, data', result)
        /\ pc' = [pc EXCEPT ![t] = "clear132"]
        /\ UNCHANGED <<datat, mutex, locals, returns, handler, calls, lin, cleared>>

\* Mutant: clear deletes the creation time only; the table stays.
clearData_Skip(t) ==
    /\ pc[t] = "clear131"
    /\ pc' = [pc EXCEPT ![t] = "clear132"]
    /\ UNCHANGED <<data, datat, heap, mutex, locals, returns, handler, calls, lin, cleared>>

\* clear: delete(b.data, r)
clearData(t) ==
    LET r == req[t]
        b == requestBag(r)
    IN  /\ pc[t] = "clear131"
        /\ data' = MapDelete(data, <<b, r>>)
        /\ heap' = Reachable(heap, data', result)
        /\ pc' = [pc EXCEPT ![t] = "clear132"]
        /\ cleared' = IF <<b, r>> \in DOMAIN data
                      THEN MapPut(cleared, <<b, r>>,
                                  [table |-> Deref(data[<<b, r>>]), time |-> NoTime])
                      ELSE cleared
        /\ UNCHANGED <<datat, mutex, locals, returns, handler, calls, lin>>

\* Mutant: clear leaves the creation time behind.
clearDatat_Skip(t) ==
    /\ pc[t] = "clear132"
    /\ pc' = [pc EXCEPT ![t] = "Clear125"]
    /\ UNCHANGED <<data, datat, heap, mutex, locals, returns, handler, calls, lin, cleared>>

\* clear: delete(b.datat, r)
clearDatat(t) ==
    LET r == req[t]
        b == requestBag(r)
    IN  /\ pc[t] = "clear132"
        /\ datat' = MapDelete(datat, <<b, r>>)
        /\ pc' = [pc EXCEPT ![t] = "Clear125"]
        /\ cleared' = IF <<b, r>> \in (DOMAIN datat) \cap (DOMAIN cleared)
                      THEN [cleared EXCEPT ![<<b, r>>].time = datat[<<b, r>>]]
                      ELSE cleared
        /\ UNCHANGED <<data, heap, mutex, locals, returns, handler, calls, lin>>

\* b.mutex.Unlock().  When this Clear is the one ClearHandler deferred, the
\* wrapper invocation is over once it returns (a panic goes on unwinding).
ClearUnlock(t) ==
    /\ pc[t] = "Clear125"
    /\ Unlock(requestBag(req[t]), t)
    /\ IF hexit[t] = "none"
       THEN Leave(t) /\ UNCHANGED handler
       ELSE /\ pc' = [pc EXCEPT ![t] = "idle"]
            /\ req' = [req EXCEPT ![t] = NoRequest]
            /\ UNCHANGED <<key, val, unix, value, ok>>
            /\ hreq' = [hreq EXCEPT ![t] = NoRequest]
            /\ hexit' = [hexit EXCEPT ![t] = "none"]
    /\ UNCHANGED <<store, result, calls, lin, cleared>>

\* ------------------------------------------------------------- ClearHandler
\* The function ClearHandler returns is called with r: defer Clear(r);
\* h.ServeHTTP(w, r) is entered.
ServeHTTP(t, r) ==
    /\ pc[t] = "idle"
    /\ hreq[t] = NoRequest
    /\ calls < MaxCalls
    /\ hreq' = [hreq EXCEPT ![t] = r]
    /\ pc' = [pc EXCEPT ![t] = "handler"]
    /\ calls' = calls + 1
    /\ UNCHANGED <<store, mutex, locals, returns, hexit, lin, cleared>>

\* The deferred call Clear(r) starts.
Deferred(t, how) ==
    /\ pc' = [pc EXCEPT ![t] = "Clear123"]
    /\ req' = [req EXCEPT ![t] = hreq[t]]
    /\ key' = [key EXCEPT ![t] = Nil]
    /\ val' = [val EXCEPT ![t] = Nil]
    /\ unix' = [unix EXCEPT ![t] = NoTime]
    /\ value' = [value EXCEPT ![t] = Nil]
    /\ ok' = [ok EXCEPT ![t] = FALSE]
    /\ result' = [result EXCEPT ![t] = NilMap]
    /\ heap' = Reachable(heap, data, result')
    /\ hexit' = [hexit EXCEPT ![t] = how]
    /\ UNCHANGED <<data, datat, mutex, hreq, calls, lin, cleared>>

\* Mutant: Clear(r) is called before h.ServeHTTP instead of being deferred:
\* nothing is cleared when the handler returns.
HandlerReturn_NoClear(t) ==
    /\ pc[t] = "handler"
    /\ pc' = [pc EXCEPT ![t] = "idle"]
    /\ hreq' = [hreq EXCEPT ![t] = NoRequest]
    /\ UNCHANGED <<store, mutex, locals, returns, hexit, calls, lin, cleared>>

\* h.ServeHTTP(w, r) returns.
HandlerReturn(t) ==
    /\ pc[t] = "handler"
    /\ Deferred(t, "return")

\* Mutant: Clear(r) is called after h.ServeHTTP, not deferred: a panic
\* leaves the closure without it.
HandlerPanic_NoClear(t) ==
    /\ pc[t] = "handler"
    /\ pc' = [pc EXCEPT ![t] = "idle"]
    /\ hreq' = [hreq EXCEPT ![t] = NoRequest]
    /\ UNCHANGED <<store, mutex, locals, returns, hexit, calls, lin, cleared>>

\* h.ServeHTTP(w, r) panics.
HandlerPanic(t) ==
    /\ pc[t] = "handler"
    /\ Deferred(t, "panic")

\* --------------------------------------------------------------------- Next
Next ==
    \E t \in Threads :
        \/ \E r \in Requests, k \in Keys, v \in Values : CallSet(t, r, k, v)
        \/ SetLock(t)
        \/ SetMake(t)
        \/ \E now \in Times : SetStamp(t, now)
        \/ SetStore(t)
        \/ SetUnlock(t)
        \/ \E r \in Requests, k \in Keys : CallGet(t, r, k)
        \/ GetRLock(t)
        \/ GetRead(t)
        \/ GetRUnlock(t)
        \/ \E r \in Requests, k \in Keys : CallGetOk(t, r, k)
        \/ GetOkRLock(t)
        \/ GetOkRead(t)
        \/ GetOkRUnlock(t)
        \/ \E r \in Requests : CallGetAll(t, r)
        \/ GetAllRLock(t)
        \/ GetAllCopy(t)
        \/ GetAllRUnlock(t)
        \/ \E r \in Requests : CallGetAllOk(t, r)
        \/ GetAllOkRLock(t)
        \/ GetAllOkCopy(t)
        \/ GetAllOkRUnlock(t)
        \/ \E k \in Keys, v \in Values : MutateResult(t, k, v)
        \/ \E r \in Requests, k \in Keys : CallDelete(t, r, k)
        \/ DeleteLock(t)
        \/ DeleteKey(t)
        \/ DeleteUnlock(t)
        \/ \E r \in Requests : CallClear(t, r)
        \/ ClearLock(t)
        \/ clearData(t)
        \/ clearDatat(t)
        \/ ClearUnlock(t)
        \/ \E r \in Requests : ServeHTTP(t, r)
        \/ HandlerReturn(t)
        \/ HandlerPanic(t)

Spec == Init /\ [][Next]_vars


\* ------------------------------------------------- wrapped invocations only
\* The program as a server runs it: every goroutine serves requests through
\* the closure of ClearHandler, each invocation on a request no other running
\* invocation has, and the package is called from inside the handlers only.
\* At the start every goroutine has entered its first invocation.
InitHandlers ==
    /\ data = EmptyMap
    /\ datat = EmptyMap
    /\ mutex = {}
    /\ heap = EmptyMap
    /\ pc = [t \in Threads |-> "handler"]
    /\ req = [t \in Threads |-> NoRequest]
    /\ key = [t \in Threads |-> Nil]
    /\ val = [t \in Threads |-> Nil]
    /\ unix = [t \in Threads |-> NoTime]
    /\ value = [t \in Threads |-> Nil]
    /\ ok = [t \in Threads |-> FALSE]
    /\ result = [t \in Threads |-> NilMap]
    /\ hreq \in [Threads -> Requests]
    /\ \A t, u \in Threads : t # u => hreq[t] # hreq[u]
    /\ hexit = [t \in Threads |-> "none"]
    /\ calls = 0
    /\ lin = EmptyMap
    /\ cleared = EmptyMap

\* The handler of goroutine t is running.
Serving(t) == pc[t] = "handler"

NextHandlers ==
    \E t \in Threads :
        \/ \E r \in Requests :
               (\A u \in Threads : hreq[u] # r) /\ ServeHTTP(t, r)
        \/ HandlerReturn(t)
        \/ HandlerPanic(t)
        \/ \E r \in Requests, k \in Keys, v \in Values : Serving(t) /\ CallSet(t, r, k, v)
        \/ SetLock(t)
        \/ SetMake(t)
        \/ \E now \in Times : SetStamp(t, now)
        \/ SetStore(t)
        \/ SetUnlock(t)
        \/ \E r \in Requests, k \in Keys : Serving(t) /\ CallGet(t, r, k)
        \/ GetRLock(t)
        \/ GetRead(t)
        \/ GetRUnlock(t)
        \/ \E r \in Requests, k \in Keys : Serving(t) /\ CallGetOk(t, r, k)
        \/ GetOkRLock(t)
        \/ GetOkRead(t)
        \/ GetOkRUnlock(t)
        \/ \E r \in Requests : Serving(t) /\ CallGetAll(t, r)
        \/ GetAllRLock(t)
        \/ GetAllCopy(t)
        \/ GetAllRUnlock(t)
        \/ \E r \in Requests : Serving(t) /\ CallGetAllOk(t, r)
        \/ GetAllOkRLock(t)
        \/ GetAllOkCopy(t)
        \/ GetAllOkRUnlock(t)
        \/ \E k \in Keys, v \in Values : Serving(t) /\ MutateResult(t, k, v)
        \/ \E r \in Requests, k \in Keys : Serving(t) /\ CallDelete(t, r, k)
        \/ DeleteLock(t)
        \/ DeleteKey(t)
        \/ DeleteUnlock(t)
        \/ \E r \in Requests : Serving(t) /\ CallClear(t, r)
        \/ ClearLock(t)
        \/ clearData(t)
        \/ clearDatat(t)
        \/ ClearUnlock(t)

SpecHandlers == InitHandlers /\ [][NextHandlers]_vars


\* ------------------------------------------------------- fair scheduling
\* Goroutine t is inside a call of the package.
Busy(t) == pc[t] \notin {"idle", "handler"}

\* A step of the call goroutine t is in.
Runs(t) ==
    \/ SetLock(t) \/ SetMake(t) \/ (\E now \in Times : SetStamp(t, now))
    \/ SetStore(t) \/ SetUnlock(t)
    \/ GetRLock(t) \/ GetRead(t) \/ GetRUnlock(t)
    \/ GetOkRLock(t) \/ GetOkRead(t) \/ GetOkRUnlock(t)
    \/ GetAllRLock(t) \/ GetAllCopy(t) \/ GetAllRUnlock(t)
    \/ GetAllOkRLock(t) \/ GetAllOkCopy(t) \/ GetAllOkRUnlock(t)
    \/ DeleteLock(t) \/ DeleteKey(t) \/ DeleteUnlock(t)
    \/ ClearLock(t) \/ clearData(t) \/ clearDatat(t) \/ ClearUnlock(t)

\* The calls the goroutines make, on the keys 1..NumFairKeys.
CallsFair(t) ==
    \/ \E r \in Requests, k \in 1..NumFairKeys, v \in Values : CallSet(t, r, k, v)
    \/ \E r \in Requests, k \in 1..NumFairKeys : CallGet(t, r, k)
    \/ \E r \in Requests, k \in 1..NumFairKeys : CallGetOk(t, r, k)
    \/ \E r \in Requests : CallGetAll(t, r)
    \/ \E r \in Requests : CallGetAllOk(t, r)
    \/ \E k \in 1..NumFairKeys, v \in Values : MutateResult(t, k, v)
    \/ \E r \in Requests, k \in 1..NumFairKeys : CallDelete(t, r, k)
    \/ \E r \in Requests : CallClear(t, r)
    \/ \E r \in Requests : ServeHTTP(t, r)
    \/ HandlerReturn(t)
    \/ HandlerPanic(t)

NextFair == \E t \in Threads : CallsFair(t) \/ Runs(t)

\* The Go scheduler runs every goroutine that can run, and a goroutine
\* waiting for a lock gets it once the lock stays free.
SpecFair == Init /\ [][NextFair]_vars /\ \A t \in Threads : WF_vars(Runs(t))

\* ============================================================== properties
\* The attribute table of every registered request: <<b, r>> -> (key -> value).
Tables == [e \in DOMAIN data |-> Deref(data[e])]

\* r has a table in its databag.
Registered(r) == <<requestBag(r), r>> \in DOMAIN data

\* Goroutine t takes a step of the call it is in.
Moves(t) == pc'[t] # pc[t]

\* The steps in which a write takes effect.
SetTakesEffect(t, r, k, v) ==
    pc[t] = "Set47" /\ pc'[t] = "Set48" /\ req[t] = r /\ key[t] = k /\ val[t] = v
DeleteTakesEffect(t, r, k) ==
    pc[t] = "Delete111" /\ pc'[t] = "Delete114" /\ req[t] = r /\ key[t] = k
ClearTakesEffect(t, r) ==
    pc[t] = "clear131" /\ pc'[t] = "clear132" /\ req[t] = r

\* What the three keyed reads compute for (r, k) from the store.
Reads(r, k) ==
    <<GetOk(r, k), Get(r, k),
      k \in DOMAIN GetAllOk(r).m, MapGet(GetAllOk(r).m, k, Nil)>>

\* A read call at its return statement returns what its body computes from
\* the store as it is now (the read lock is still held).
ReadsReturnTheStore ==
    \A t \in Threads :
        /\ pc[t] \in {"Get57", "Get60"} => value[t] = Get(req[t], key[t])
        /\ pc[t] \in {"GetOk70", "GetOk73"} =>
               [value |-> value[t], ok |-> ok[t]] = GetOk(req[t], key[t])
        /\ pc[t] \in {"GetAll86", "GetAll89"} =>
               [m |-> Deref(result[t]), isnil |-> result[t] = NilMap] = GetAll(req[t])
        /\ pc[t] = "GetAllOk103" =>
               /\ result[t] # NilMap
               /\ [m |-> Deref(result[t]), ok |-> ok[t]] = GetAllOk(req[t])

\* C1: last write wins.  When Set(r, k, v) takes effect, GetOk(r, k) gives
\* (v, true), Get(r, k) gives v and GetAllOk(r) gives (m, true) with m[k] = v,
\* also when k held another value before; what the reads of (r, k) give then
\* changes only when a Set(r, k, .), a Delete(r, k) or a Clear(r) takes effect;
\* and every read call returns what its body gives on the store at that time.
C1_SetStep ==
    /\ \A t \in Threads :
           pc[t] = "Set47" /\ Moves(t) =>
               \A r \in Requests, k \in Keys, v \in Values :
                   SetTakesEffect(t, r, k, v) =>
                       /\ Reads(r, k)' = <<[value |-> v, ok |-> TRUE], v, TRUE, v>>
                       /\ GetAllOk(r)'.ok
    /\ <<data, heap>>' # <<data, heap>> =>
           \A r \in Requests, k \in Keys :
               Reads(r, k)' # Reads(r, k) =>
                   \E t \in Threads :
                       \/ \E v \in Values : SetTakesEffect(t, r, k, v)
                       \/ DeleteTakesEffect(t, r, k)
                       \/ ClearTakesEffect(t, r)
C1_LastWriteWins == []ReadsReturnTheStore /\ [][C1_SetStep]_vars

\* A GetOk of a key returns (v, true) with v not nil while a Get of the same
\* key of the same request returns v next to it.
C1_Witness ==
    \E t, u \in Threads :
        /\ pc[t] = "GetOk70" /\ ok[t] /\ value[t] # Nil
        /\ pc[u] = "Get57" /\ value[u] = value[t]
        /\ req[u] = req[t] /\ key[u] = key[t]


\* The statements of the busy calls.
InSet(t) == pc[t] \in {"Set42", "Set43", "Set45", "Set47", "Set48"}
InDelete(t) == pc[t] \in {"Delete110", "Delete111", "Delete114"}
InClear(t) == pc[t] \in {"Clear123", "clear131", "clear132", "Clear125"}

\* The entry of request r in its databag's maps.
Entry(r) == <<requestBag(r), r>>

\* C2: absent results instead of errors.  For a request without a table, for
\* every key, the body of GetOk gives (nil, false), of Get nil, of GetAllOk
\* (empty map, false), of GetAll the nil map, and a read call on such a request
\* that stands at its return statement returns just that.
C2_AbsentResults ==
    \A r \in Requests :
        ~Registered(r) =>
            /\ \A k \in Keys : GetOk(r, k) = [value |-> Nil, ok |-> FALSE] /\ Get(r, k) = Nil
            /\ GetAllOk(r) = [m |-> EmptyMap, ok |-> FALSE]
            /\ GetAll(r) = [m |-> EmptyMap, isnil |-> TRUE]
            /\ \A t \in Threads :
                   req[t] = r =>
                       /\ pc[t] \in {"Get57", "Get60"} => pc[t] = "Get60" /\ value[t] = Nil
                       /\ pc[t] \in {"GetOk70", "GetOk73"} =>
                              pc[t] = "GetOk73" /\ value[t] = Nil /\ ~ok[t]
                       /\ pc[t] \in {"GetAll86", "GetAll89"} =>
                              pc[t] = "GetAll89" /\ result[t] = NilMap
                       /\ pc[t] = "GetAllOk103" =>
                              ~ok[t] /\ result[t] # NilMap /\ Deref(result[t]) = EmptyMap

\* A GetAllOk and a GetOk return their absent results for a request without a
\* table while another request has one.
C2_Witness ==
    \E t, u \in Threads :
        /\ pc[t] = "GetAllOk103" /\ ~ok[t] /\ Deref(result[t]) = EmptyMap
        /\ pc[u] = "GetOk73" /\ ~Registered(req[u])
        /\ DOMAIN data # {}

\* C3: Delete removes exactly one key.  When Delete(r, k) takes effect, k is no
\* key of r's table afterwards, every other key of every table keeps its value,
\* and no step of a Delete call adds or removes a table or changes a creation
\* time; when r has no table or k is not in it, no table changes at all.
C3_DeleteStep ==
    \A t \in Threads :
        InDelete(t) /\ Moves(t) =>
            /\ datat' = datat
            /\ DOMAIN data' = DOMAIN data
            /\ \A e \in DOMAIN data, k \in Keys :
                   (e = Entry(req[t]) /\ k = key[t] /\ pc[t] = "Delete111")
                   \/ /\ (k \in DOMAIN Tables'[e]) = (k \in DOMAIN Tables[e])
                      /\ MapGet(Tables'[e], k, Nil) = MapGet(Tables[e], k, Nil)
            /\ pc[t] = "Delete111" =>
                   \A r \in Requests, k \in Keys :
                       req[t] = r /\ key[t] = k =>
                           /\ GetOk(r, k)' = [value |-> Nil, ok |-> FALSE]
                           /\ Registered(r) => key[t] \notin DOMAIN Tables'[Entry(r)]
            /\ (~Registered(req[t]) \/ key[t] \notin DOMAIN Tables[Entry(req[t])]) =>
                   Tables' = Tables
C3_DeleteOneKey == [][C3_DeleteStep]_vars

\* A Delete has taken effect on a table that keeps another key.
C3_Witness ==
    \E t \in Threads :
        /\ pc[t] = "Delete114"
        /\ Registered(req[t])
        /\ key[t] \notin DOMAIN Tables[Entry(req[t])]
        /\ DOMAIN Tables[Entry(req[t])] # {}

\* C4: Clear removes the table and the creation time.  A Clear(r) that has
\* run clear(r) leaves r in neither map of its databag and GetAllOk(r) gives
\* (empty, false); no step of a Clear(r) on a request that is in neither map
\* changes any table or any creation time (so a second Clear changes nothing).
C4_Cleared ==
    \A t \in Threads :
        pc[t] = "Clear125" =>
            /\ Entry(req[t]) \notin DOMAIN data
            /\ Entry(req[t]) \notin DOMAIN datat
            /\ GetAllOk(req[t]) = [m |-> EmptyMap, ok |-> FALSE]
C4_ClearStep ==
    \A t \in Threads :
        /\ InClear(t) /\ Moves(t)
        /\ Entry(req[t]) \notin DOMAIN data
        /\ Entry(req[t]) \notin DOMAIN datat
        => Tables' = Tables /\ datat' = datat
C4_ClearRemoves == []C4_Cleared /\ [][C4_ClearStep]_vars

\* A Clear of a registered request has removed the table and is about to
\* remove the creation time that shows the request was registered.
C4_Witness ==
    \E t \in Threads :
        /\ pc[t] = "clear132"
        /\ Entry(req[t]) \notin DOMAIN data
        /\ Entry(req[t]) \in DOMAIN datat

\* C5: isolation between requests.  No step of a Set, Delete or Clear call on
\* r1 changes, for any other request r2 (in the same databag or not), r2's
\* table, r2's creation time or what Get, GetOk, GetAll, GetAllOk give for r2.
C5_WriteStep ==
    \A t \in Threads :
        (InSet(t) \/ InDelete(t) \/ InClear(t)) /\ Moves(t) =>
            \A r2 \in Requests \ {req[t]} :
                /\ (Entry(r2) \in DOMAIN data') = (Entry(r2) \in DOMAIN data)
                /\ Registered(r2) => Tables'[Entry(r2)] = Tables[Entry(r2)]
                /\ (Entry(r2) \in DOMAIN datat') = (Entry(r2) \in DOMAIN datat)
                /\ Entry(r2) \in DOMAIN datat => datat'[Entry(r2)] = datat[Entry(r2)]
                /\ GetAll(r2)' = GetAll(r2)
                /\ GetAllOk(r2)' = GetAllOk(r2)
                /\ \A k \in Keys : GetOk(r2, k)' = GetOk(r2, k) /\ Get(r2, k)' = Get(r2, k)
C5_Isolation == [][C5_WriteStep]_vars

\* A Clear has removed a request's table while another request of the same
\* databag has a table with a key in it.
C5_Witness ==
    \E t \in Threads, r2 \in Requests :
        /\ pc[t] = "clear132"
        /\ Entry(req[t]) \in DOMAIN datat
        /\ r2 # req[t]
        /\ requestBag(r2) = requestBag(req[t])
        /\ Registered(r2)
        /\ DOMAIN Tables[Entry(r2)] # {}


\* Goroutine t has a result map in hand (made by its GetAll/GetAllOk call).
HoldsResult(t) == result[t] # NilMap

\* The step is a write of the caller into the map it holds.
CallerWrites == pc' = pc /\ calls' # calls /\ heap' # heap

\* C6: GetAll and GetAllOk return a snapshot.  At its return statement the
\* call holds a map of its own whose contents are those of r's table; a write
\* of the caller into a returned map changes no table, hence no Get; and no
\* step but a write of its holder into it (no Set, Delete, Clear of any
\* goroutine) changes the contents of a map a goroutine holds.
C6_SnapshotTaken ==
    \A t \in Threads :
        pc[t] \in {"GetAll86", "GetAllOk103"} =>
            /\ HoldsResult(t)
            /\ \A e \in DOMAIN data : data[e] # result[t]
            /\ Deref(result[t]) =
                   IF Registered(req[t]) THEN Tables[Entry(req[t])] ELSE EmptyMap
C6_SnapshotStep ==
    /\ CallerWrites =>
           /\ Tables' = Tables
           /\ \A r \in Requests, k \in Keys : Get(r, k)' = Get(r, k)
    /\ \A t \in Threads :
           HoldsResult(t) /\ result'[t] = result[t] =>
               \/ Deref(result[t])' = Deref(result[t])
               \/ /\ CallerWrites
                  /\ pc[t] \in {"idle", "handler"}
                  /\ \A u \in Threads \ {t} :
                         HoldsResult(u) => Deref(result[u])' = Deref(result[u])
C6_Snapshot == []C6_SnapshotTaken /\ [][C6_SnapshotStep]_vars

\* A Set on a request has taken effect while another goroutine holds a map,
\* with a key in it, that differs from the request's table.
C6_Witness ==
    \E t, u \in Threads :
        /\ pc[t] \in {"idle", "handler"}
        /\ HoldsResult(t)
        /\ DOMAIN Deref(result[t]) # {}
        /\ pc[u] = "Set48"
        /\ Tables[Entry(req[u])] # Deref(result[t])

\* C7: the ClearHandler closure.  Entering it (defer, call of h.ServeHTTP)
\* changes neither the store nor a lock; however the handler leaves, by return
\* or by panic, the one deferred Clear(r) runs: the closure is left only by
\* the last statement of that Clear, and then GetAllOk(r) gives (empty, false).
C7_DeferredClear ==
    \A t \in Threads :
        /\ hexit[t] # "none" => InClear(t) /\ req[t] = hreq[t] /\ hreq[t] # NoRequest
        /\ pc[t] = "handler" => hreq[t] # NoRequest /\ hexit[t] = "none"
C7_HandlerStep ==
    \A t \in Threads :
        /\ hreq[t] = NoRequest /\ hreq'[t] # NoRequest =>
               /\ UNCHANGED <<data, datat, heap, mutex>>
               /\ pc'[t] = "handler"
        /\ hexit[t] = "none" /\ hexit'[t] # "none" =>
               /\ pc[t] = "handler" /\ pc'[t] = "Clear123"
               /\ req'[t] = hreq[t]
               /\ UNCHANGED <<data, datat, mutex>>
        /\ pc[t] = "handler" => pc'[t] # "idle"
        /\ hreq[t] # NoRequest /\ hreq'[t] # hreq[t] =>
               /\ hreq'[t] = NoRequest
               /\ pc[t] = "Clear125" /\ hexit[t] # "none" /\ req[t] = hreq[t]
               /\ \A r \in Requests :
                      r = hreq[t] =>
                          /\ GetAllOk(r)' = [m |-> EmptyMap, ok |-> FALSE]
                          /\ Entry(r) \notin DOMAIN datat'
C7_ClearHandler == []C7_DeferredClear /\ [][C7_HandlerStep]_vars

\* The handler has panicked after storing a value for its request, and the
\* deferred Clear has removed the request's table.
C7_Witness ==
    \E t \in Threads :
        /\ hexit[t] = "panic"
        /\ pc[t] = "clear132"
        /\ Entry(hreq[t]) \in DOMAIN datat
        /\ ~Registered(hreq[t])

\* The lock of databag b is held for writing.
WriteHeld(b) == \E h \in mutex : h[1] = b /\ h[3] = "W"

\* What Get, GetOk, GetAll, GetAllOk give on the tables a.
AbsGet(a, r, k) == IF r \in DOMAIN a THEN MapGet(a[r], k, Nil) ELSE Nil
AbsGetOk(a, r, k) ==
    IF r \in DOMAIN a
    THEN [value |-> MapGet(a[r], k, Nil), ok |-> k \in DOMAIN a[r]]
    ELSE [value |-> Nil, ok |-> FALSE]
AbsGetAll(a, r) ==
    IF r \in DOMAIN a THEN [m |-> a[r], isnil |-> FALSE] ELSE [m |-> EmptyMap, isnil |-> TRUE]
AbsGetAllOk(a, r) ==
    IF r \in DOMAIN a THEN [m |-> a[r], ok |-> TRUE] ELSE [m |-> EmptyMap, ok |-> FALSE]

\* C8: linearizability, no lost update.  Whenever the lock of a databag is not
\* held for writing, the tables of its requests are the ones that running the
\* Set, Delete and Clear calls one at a time, in the order in which they got
\* their lock, produces (so no update of any goroutine is lost, whichever
\* requests and keys the goroutines work on), and a read call at its return
\* statement returns what it gives on those tables.
C8_Linearizable ==
    /\ \A r \in Requests :
           ~WriteHeld(requestBag(r)) =>
               /\ Registered(r) = (r \in DOMAIN lin)
               /\ Registered(r) => Tables[Entry(r)] = lin[r]
    /\ DOMAIN data \subseteq { Entry(r) : r \in Requests }
    /\ \A t \in Threads :
           /\ pc[t] \in {"Get57", "Get60"} => value[t] = AbsGet(lin, req[t], key[t])
           /\ pc[t] \in {"GetOk70", "GetOk73"} =>
                  [value |-> value[t], ok |-> ok[t]] = AbsGetOk(lin, req[t], key[t])
           /\ pc[t] \in {"GetAll86", "GetAll89"} =>
                  [m |-> Deref(result[t]), isnil |-> result[t] = NilMap]
                      = AbsGetAll(lin, req[t])
           /\ pc[t] = "GetAllOk103" =>
                  [m |-> Deref(result[t]), ok |-> ok[t]] = AbsGetAllOk(lin, req[t])

\* Two Sets on different keys of one request run at the same time: one has
\* stored its value and holds the lock the other one is waiting for.
C8_Witness ==
    \E t, u \in Threads :
        /\ pc[t] = "Set48"
        /\ pc[u] = "Set42"
        /\ req[u] = req[t]
        /\ key[u] # key[t]
        /\ Tables[Entry(req[t])][key[t]] = val[t]
        /\ lin = [r \in {req[t]} |-> Tables[Entry(req[t])]]

\* C9: Get and GetOk.  Get(r, k) gives the value GetOk(r, k) gives; GetOk
\* gives ok = true exactly when r has a table with key k; for a key set to
\* nil Get gives nil as for a key never set, while GetOk gives (nil, true).
C9_GetVersusGetOk ==
    /\ \A r \in Requests, k \in Keys :
           /\ Get(r, k) = GetOk(r, k).value
           /\ GetOk(r, k).ok = (Registered(r) /\ k \in DOMAIN Tables[Entry(r)])
           /\ (Registered(r) /\ k \in DOMAIN Tables[Entry(r)] /\ Tables[Entry(r)][k] = Nil) =>
                  /\ Get(r, k) = Nil
                  /\ GetOk(r, k) = [value |-> Nil, ok |-> TRUE]
           /\ ~GetOk(r, k).ok => Get(r, k) = Nil
    /\ \A t \in Threads :
           /\ pc[t] \in {"Get57", "Get60"} => value[t] = GetOk(req[t], key[t]).value
           /\ pc[t] \in {"GetOk70", "GetOk73"} =>
                  /\ value[t] = Get(req[t], key[t])
                  /\ ok[t] = (Registered(req[t]) /\ key[t] \in DOMAIN Tables[Entry(req[t])])

\* For a key set to nil, a GetOk returns (nil, true) while a Get returns nil.
C9_Witness ==
    \E t, u \in Threads :
        /\ pc[t] = "GetOk70" /\ ok[t] /\ value[t] = Nil
        /\ pc[u] = "Get57" /\ value[u] = Nil
        /\ req[u] = req[t] /\ key[u] = key[t]

\* C10: GetAllOk gives ok = true exactly when r has a table, also an empty
\* one: a Delete never removes the table, so after the Delete of the only key
\* GetAllOk gives (empty map, true); it gives (empty map, false) only when r
\* has no table.
C10_Registered ==
    /\ \A r \in Requests :
           /\ GetAllOk(r).ok = Registered(r)
           /\ (Registered(r) /\ Tables[Entry(r)] = EmptyMap) =>
                  GetAllOk(r) = [m |-> EmptyMap, ok |-> TRUE]
           /\ GetAllOk(r) = [m |-> EmptyMap, ok |-> FALSE] => ~Registered(r)
    /\ \A t \in Threads :
           pc[t] = "GetAllOk103" => ok[t] = Registered(req[t])
C10_DeleteStep ==
    \A t \in Threads :
        pc[t] = "Delete111" /\ Moves(t) =>
            \A r \in Requests :
                req[t] = r /\ Registered(r) =>
                    /\ Registered(r)'
                    /\ GetAllOk(r)'.ok
                    /\ DOMAIN Tables[Entry(r)] \subseteq {key[t]} =>
                           GetAllOk(r)' = [m |-> EmptyMap, ok |-> TRUE]
C10_GetAllOkPresent == []C10_Registered /\ [][C10_DeleteStep]_vars

\* A GetAllOk returns (empty map, true).
C10_Witness ==
    \E t \in Threads :
        /\ pc[t] = "GetAllOk103"
        /\ ok[t]
        /\ Deref(result[t]) = EmptyMap

\* The goroutines inside a read critical section of databag b.
ReadHeld(b) == \E h \in mutex : h[1] = b /\ h[3] = "R"

\* C11: table/timestamp consistency.  In every state in which the lock of a
\* databag is not held for writing (so in every state a reader of the databag
\* sees, and when an operation on it starts), a request is in the databag's
\* datat map exactly when it is in its data map.
C11_Consistent ==
    \A e \in (DOMAIN data) \cup (DOMAIN datat) :
        ~WriteHeld(e[1]) => (e \in DOMAIN datat) = (e \in DOMAIN data)

\* A reader is inside its critical section on a databag with a registered
\* request, in both maps, while a Set on another databag has made its table
\* and not yet recorded the creation time.
C11_Witness ==
    \E t, u \in Threads :
        /\ pc[t] = "GetOk70"
        /\ Entry(req[t]) \in DOMAIN data
        /\ Entry(req[t]) \in DOMAIN datat
        /\ pc[u] = "Set45"
        /\ Entry(req[u]) \in DOMAIN data
        /\ Entry(req[u]) \notin DOMAIN datat

\* C12: shard placement.  The databag of a request is its address modulo
\* numberOfBags, whatever the state: a request is in the data or datat map of
\* databag i only when i is that number, so it has at most one table in the
\* whole store; a goroutine holds the lock of that databag only; and no step
\* of an operation on r changes a map entry or a lock of another databag.
C12_Placed ==
    /\ \A r \in Requests : requestBag(r) = r % numberOfBags
    /\ \A e \in (DOMAIN data) \cup (DOMAIN datat) :
           e[2] \in Requests /\ e[1] = e[2] % numberOfBags
    /\ \A r \in Requests : Cardinality({e \in DOMAIN data : e[2] = r}) <= 1
    /\ \A h \in mutex : h[1] = req[h[2]] % numberOfBags
C12_Step ==
    \A t \in Threads :
        Moves(t) /\ req[t] # NoRequest =>
            /\ \A e \in (DOMAIN data) \cup (DOMAIN data') :
                   e[1] # req[t] % numberOfBags =>
                       /\ e \in DOMAIN data /\ e \in DOMAIN data'
                       /\ Tables'[e] = Tables[e]
            /\ \A e \in (DOMAIN datat) \cup (DOMAIN datat') :
                   e[1] # req[t] % numberOfBags =>
                       /\ e \in DOMAIN datat /\ e \in DOMAIN datat'
                       /\ datat'[e] = datat[e]
            /\ \A h \in (mutex \ mutex') \cup (mutex' \ mutex) :
                   h[1] = req[t] % numberOfBags /\ h[2] = t
C12_ShardPlacement == []C12_Placed /\ [][C12_Step]_vars

\* Three requests have a table: two of them in one databag, the third one in
\* another databag.
C12_Witness ==
    \E r1, r2, r3 \in Requests :
        /\ Registered(r1) /\ Registered(r2) /\ Registered(r3)
        /\ r1 # r2
        /\ r1 % numberOfBags = r2 % numberOfBags
        /\ r1 % numberOfBags # r3 % numberOfBags

\* C13 as the specification states it: whenever the lock of its databag is
\* not held for writing, every request with a table has a table with at least
\* one key.
C13_OnlyWhileNonEmpty ==
    \A r \in Requests :
        Registered(r) /\ ~WriteHeld(requestBag(r)) => DOMAIN Tables[Entry(r)] # {}

\* C13, amended: a table lives from the Set that makes it to the next Clear
\* of its request, also while it is empty.  Only line 44 of a Set adds a table
\* and that Set releases the lock with its key stored; a table with keys
\* becomes empty only by the Delete of its last key, which leaves the empty
\* table and its creation time in place; only clear removes a table.
C13_Filled ==
    \A t \in Threads :
        pc[t] = "Set48" =>
            Registered(req[t]) /\ key[t] \in DOMAIN Tables[Entry(req[t])]
C13_Step ==
    <<data, heap>>' # <<data, heap>> =>
        \A r \in Requests :
            /\ ~Registered(r) /\ Registered(r)' =>
                   \E t \in Threads :
                       pc[t] = "Set43" /\ pc'[t] = "Set45" /\ req[t] = r
            /\ Registered(r) /\ ~Registered(r)' =>
                   \E t \in Threads : ClearTakesEffect(t, r)
            /\ Registered(r) /\ Registered(r)' =>
                   /\ (Tables[Entry(r)] # EmptyMap /\ Tables'[Entry(r)] = EmptyMap) =>
                          \E t \in Threads, k \in Keys :
                              /\ DeleteTakesEffect(t, r, k)
                              /\ DOMAIN Tables[Entry(r)] = {k}
                   /\ \A t \in Threads, k \in Keys :
                          DeleteTakesEffect(t, r, k) /\ DOMAIN Tables[Entry(r)] \subseteq {k} =>
                              /\ Tables'[Entry(r)] = EmptyMap
                              /\ Entry(r) \in DOMAIN datat'
C13_TableLifetime == []C13_Filled /\ [][C13_Step]_vars

\* No lock is held and a request has a table without keys, and its creation
\* time.
C13_Witness ==
    \E r \in Requests :
        /\ mutex = {}
        /\ Registered(r)
        /\ Tables[Entry(r)] = EmptyMap
        /\ Entry(r) \in DOMAIN datat

\* The statements between Lock and Unlock, and between RLock and RUnlock.
InWriteSection(t) ==
    pc[t] \in {"Set43", "Set45", "Set47", "Set48", "Delete111", "Delete114",
               "clear131", "clear132", "Clear125"}
InReadSection(t) ==
    pc[t] \in {"Get55", "Get57", "Get60", "GetOk68", "GetOk70", "GetOk73",
               "GetAll81", "GetAll86", "GetAll89", "GetAllOk98", "GetAllOk103"}

\* C14: shard-lock atomicity.  A goroutine between Lock and Unlock of a
\* databag is the only goroutine between Lock/Unlock or RLock/RUnlock of that
\* databag.  So a goroutine inside a read never sees the middle of a write:
\* every request of its databag is in both maps or in neither, no Set on the
\* databag stands between making its table and storing its key, no Clear
\* stands between its two deletes, and the table of the request it reads is
\* the one the completed writes have produced.
C14_Atomic ==
    /\ \A t, u \in Threads :
           /\ t # u
           /\ InWriteSection(t)
           /\ InWriteSection(u) \/ InReadSection(u)
           => req[t] % numberOfBags # req[u] % numberOfBags
    /\ \A t \in Threads :
           InReadSection(t) =>
               /\ \A e \in (DOMAIN data) \cup (DOMAIN datat) :
                      e[1] = req[t] % numberOfBags =>
                          e \in DOMAIN data /\ e \in DOMAIN datat
               /\ \A u \in Threads :
                      pc[u] \in {"Set45", "Set47", "clear132"} =>
                          req[u] % numberOfBags # req[t] % numberOfBags
               /\ Registered(req[t]) = (req[t] \in DOMAIN lin)
               /\ Registered(req[t]) => Tables[Entry(req[t])] = lin[req[t]]

\* A Set has made the table of a request and has neither recorded the
\* creation time nor stored its key, while a GetAllOk of the same request
\* waits for the lock.
C14_Witness ==
    \E t, u \in Threads :
        /\ pc[u] = "Set45"
        /\ Tables[Entry(req[u])] = EmptyMap
        /\ Entry(req[u]) \notin DOMAIN datat
        /\ pc[t] = "GetAllOk97"
        /\ req[t] = req[u]

\* The step in which goroutine t gets the lock its call asks for.
Acquires(t) ==
    \/ SetLock(t) \/ DeleteLock(t) \/ ClearLock(t)
    \/ GetRLock(t) \/ GetOkRLock(t) \/ GetAllRLock(t) \/ GetAllOkRLock(t)

\* Goroutine t stands at the RLock, at the Lock, of its call.
AtRLock(t) == pc[t] \in {"Get54", "GetOk67", "GetAll80", "GetAllOk97"}
AtLock(t) == pc[t] \in {"Set42", "Delete110", "Clear123"}

\* C15: reads share the lock, writes exclude.  A goroutine inside a read
\* section holds the lock of its databag shared, inside a write section
\* exclusively.  A read standing at its RLock cannot take the step while a
\* goroutine is inside a write section of its databag, and can take it when
\* none is inside one and none stands at the Lock of that databag, however
\* many are inside read sections of it; a write standing at its Lock can take
\* the step exactly when no goroutine is inside a read or write section of its
\* databag; so what happens on other databags never blocks either.
C15_SharedExclusive ==
    /\ \A t \in Threads :
           /\ InReadSection(t) => <<req[t] % numberOfBags, t, "R">> \in mutex
           /\ InWriteSection(t) => <<req[t] % numberOfBags, t, "W">> \in mutex
    /\ \A t \in Threads :
           AtRLock(t) =>
               /\ (\E u \in Threads :
                       /\ InWriteSection(u)
                       /\ req[u] % numberOfBags = req[t] % numberOfBags)
                  => ~ENABLED Acquires(t)
               /\ (\A u \in Threads :
                       InWriteSection(u) \/ AtLock(u) =>
                           req[u] % numberOfBags # req[t] % numberOfBags)
                  => ENABLED Acquires(t)
    /\ \A t \in Threads :
           AtLock(t) =>
               (ENABLED Acquires(t)) =
                   ~\E u \in Threads :
                       /\ InWriteSection(u) \/ InReadSection(u)
                       /\ req[u] % numberOfBags = req[t] % numberOfBags

\* Two reads of one request are inside their critical sections at once:
\* a GetAllOk and another read both hold the lock of the request's databag.
C15_Witness ==
    \E t, u \in Threads :
        /\ t # u
        /\ pc[t] = "GetAllOk103"
        /\ pc[u] \in {"Get57", "GetOk70", "GetAll86"}
        /\ req[t] = req[u]
        /\ {<<requestBag(req[t]), t, "R">>, <<requestBag(req[u]), u, "R">>} \subseteq mutex

\* C16: the creation time is written by the creating Set only.  A request
\* enters datat only at line 45 of a Set that has just made its table, with
\* the clock value that Set has read; it leaves datat only in clear; between
\* the two its entry never changes.  A Set that finds a table, also an empty
\* one, goes straight to its store and reads no clock, and no step of a Set on
\* an existing table or of a Delete changes datat.
C16_Stamped ==
    \A t \in Threads :
        /\ pc[t] \in {"Set47", "Set48"} /\ unix[t] # NoTime =>
               /\ Entry(req[t]) \in DOMAIN datat
               /\ datat[Entry(req[t])] = unix[t]
        /\ unix[t] # NoTime => pc[t] \in {"Set47", "Set48"} /\ unix[t] \in Times
C16_Step ==
    /\ \A t \in Threads :
           /\ InDelete(t) /\ Moves(t) => datat' = datat
           /\ pc[t] = "Set43" /\ Moves(t) /\ Registered(req[t]) =>
                  pc'[t] = "Set47" /\ datat' = datat /\ unix'[t] = NoTime
           /\ pc[t] \in {"Set47", "Set48"} /\ Moves(t) => datat' = datat
    /\ datat' # datat =>
           \A e \in (DOMAIN datat) \cup (DOMAIN datat') :
               /\ e \in DOMAIN datat /\ e \in DOMAIN datat' => datat'[e] = datat[e]
               /\ e \notin DOMAIN datat =>
                      \E t \in Threads :
                          /\ pc[t] = "Set45" /\ pc'[t] = "Set47"
                          /\ Entry(req[t]) = e
                          /\ Tables[e] = EmptyMap
                          /\ unix[t] = NoTime /\ unix'[t] \in Times
                          /\ datat'[e] = unix'[t]
               /\ e \notin DOMAIN datat' =>
                      \E t \in Threads :
                          pc[t] = "clear132" /\ pc'[t] = "Clear125" /\ Entry(req[t]) = e
C16_TimestampOnce == []C16_Stamped /\ [][C16_Step]_vars

\* A Set has found the empty table a Delete has left, with its creation
\* time, and is about to store its key without having read the clock.
C16_Witness ==
    \E t \in Threads :
        /\ pc[t] = "Set47"
        /\ unix[t] = NoTime
        /\ Tables[Entry(req[t])] = EmptyMap
        /\ Entry(req[t]) \in DOMAIN datat

\* C17: a Set after Clear starts from nothing.  When clear(r) is done r has
\* no table and no creation time, and r gets a table again only at line 44
\* of a Set(r, k, v), which makes an empty one and then reads the clock.  When
\* that Set has stored its key, whatever table and creation time clear has
\* deleted for r before, GetAll(r) gives exactly {k: v}, GetAllOk(r) gives
\* ({k: v}, true) and r's creation time is the clock value this Set has read.
C17_Fresh ==
    \A t \in Threads :
        pc[t] = "Set48" /\ unix[t] # NoTime =>
            /\ GetAll(req[t]) = [m |-> [k \in {key[t]} |-> val[t]], isnil |-> FALSE]
            /\ GetAllOk(req[t]) = [m |-> [k \in {key[t]} |-> val[t]], ok |-> TRUE]
            /\ datat[Entry(req[t])] = unix[t]
C17_Step ==
    /\ data' # data =>
           \A r \in Requests :
               ~Registered(r) /\ Registered(r)' =>
                   \E t \in Threads : pc[t] = "Set43" /\ Moves(t) /\ req[t] = r
    /\ \A t \in Threads :
           /\ pc[t] = "clear132" /\ Moves(t) =>
                  /\ ~Registered(req[t])'
                  /\ Entry(req[t]) \notin DOMAIN datat'
           /\ pc[t] = "Set43" /\ Moves(t) /\ ~Registered(req[t]) =>
                  /\ pc'[t] = "Set45"
                  /\ Registered(req[t])'
                  /\ Tables'[Entry(req[t])] = EmptyMap
           /\ pc[t] = "Set45" /\ Moves(t) =>
                  /\ unix'[t] \in Times
                  /\ datat'[Entry(req[t])] = unix'[t]
C17_SetAfterClear == []C17_Fresh /\ [][C17_Step]_vars

\* A Set has made and filled a new table for a request of which clear has
\* deleted a table with another key and another creation time.
C17_Witness ==
    \E t \in Threads :
        /\ pc[t] = "Set48"
        /\ unix[t] # NoTime
        /\ Entry(req[t]) \in DOMAIN cleared
        /\ cleared[Entry(req[t])].time \in Times \ {unix[t]}
        /\ DOMAIN cleared[Entry(req[t])].table # {}
        /\ key[t] \notin DOMAIN cleared[Entry(req[t])].table
        /\ Tables[Entry(req[t])] = [k \in {key[t]} |-> val[t]]

\* C18: no table outlives the wrapped invocation.  With every call made from
\* inside a handler that ClearHandler wraps, each invocation on a request of
\* its own, returning or panicking: a request that no running invocation has
\* is in no data and no datat map; the step that ends an invocation leaves its
\* request in neither; and when no invocation is running all maps are empty
\* and no lock is held.
C18_NoneLeft ==
    /\ \A r \in Requests :
           (\A t \in Threads : hreq[t] # r) =>
               Entry(r) \notin DOMAIN data /\ Entry(r) \notin DOMAIN datat
    /\ (\A t \in Threads : hreq[t] = NoRequest) =>
           data = EmptyMap /\ datat = EmptyMap /\ mutex = {}
    /\ \A t, u \in Threads : t # u /\ hreq[t] # NoRequest => hreq[t] # hreq[u]
    /\ \A t \in Threads : req[t] \in {NoRequest, hreq[t]}
C18_EndStep ==
    \A t \in Threads :
        hreq[t] # NoRequest /\ hreq'[t] # hreq[t] =>
            /\ hexit[t] \in {"return", "panic"}
            /\ \A e \in (DOMAIN data') \cup (DOMAIN datat') : e[2] # hreq[t]
C18_NoTableOutlives == []C18_NoneLeft /\ [][C18_EndStep]_vars

\* An invocation whose handler had stored a key is over, its table and
\* creation time deleted by the deferred Clear, while the handler of another
\* invocation, on a request of the same databag, runs with a table of its own.
C18_Witness ==
    \E t, u \in Threads :
        /\ pc[t] = "idle" /\ hreq[t] = NoRequest
        /\ pc[u] = "handler" /\ Registered(hreq[u])
        /\ \E e \in DOMAIN cleared :
               /\ e[1] = requestBag(hreq[u]) /\ e[2] # hreq[u]
               /\ cleared[e].table # EmptyMap
               /\ cleared[e].time \in Times
               /\ e \notin DOMAIN data /\ e \notin DOMAIN datat

\* The locks goroutine t holds.
HeldBy(t) == {h \in mutex : h[2] = t}

\* C19: lock discipline and termination.  A goroutine holds a lock exactly
\* while it is between Lock and Unlock (the lock of r's databag, exclusively)
\* or between RLock and RUnlock (that lock, shared) of its call, clear
\* running inside Clear's section: never two locks, none when it stands at
\* Lock or RLock, none when the call has returned on whatever path, so no lock
\* is held when no call is in progress.  Every statement but Lock and RLock
\* can always be executed and some goroutine inside a call always can take a
\* step (no deadlock).  Under fair scheduling every call that has started, the
\* Clear that ClearHandler deferred too, returns.
C19_Held ==
    /\ \A t \in Threads :
           HeldBy(t) = IF InWriteSection(t) THEN {<<req[t] % numberOfBags, t, "W">>}
                       ELSE IF InReadSection(t) THEN {<<req[t] % numberOfBags, t, "R">>}
                       ELSE {}
    /\ \A h \in mutex : h[2] \in Threads
    /\ (\A t \in Threads : ~Busy(t)) => mutex = {}
    /\ \A t \in Threads : Busy(t) /\ ~AtLock(t) /\ ~AtRLock(t) => ENABLED Runs(t)
    /\ (\E t \in Threads : Busy(t)) => \E t \in Threads : ENABLED Runs(t)
C19_Step ==
    \A t \in Threads :
        /\ HeldBy(t)' # HeldBy(t) => Moves(t)
        /\ HeldBy(t)' \ HeldBy(t) # {} => HeldBy(t) = {} /\ (AtLock(t) \/ AtRLock(t))
        /\ Busy(t) /\ ~Busy(t)' => HeldBy(t) # {} /\ HeldBy(t)' = {}
C19_Returns == \A t \in Threads : Busy(t) ~> ~Busy(t)
C19_LockDiscipline == []C19_Held /\ [][C19_Step]_vars /\ C19_Returns

\* The deferred Clear of a panicked handler waits for the lock of its
\* databag, held by a read of another goroutine.
C19_Witness ==
    \E t, u \in Threads :
        /\ pc[t] = "Clear123" /\ hexit[t] = "panic"
        /\ InReadSection(u)
        /\ req[u] % numberOfBags = req[t] % numberOfBags
        /\ HeldBy(u) # {} /\ HeldBy(t) = {}

\* Goroutine t is inside Get, GetOk, GetAll or GetAllOk.
InRead(t) == AtRLock(t) \/ InReadSection(t)

\* C20: reads are pure.  No step of a Get, GetOk, GetAll or GetAllOk call
\* changes the data map, the datat map or a table of any databag; a read of a
\* request without a table leaves it without table and creation time, also
\* GetAllOk, which makes an empty result map for it.
C20_ReadStep ==
    \A t \in Threads :
        InRead(t) /\ Moves(t) =>
            /\ data' = data
            /\ datat' = datat
            /\ Tables' = Tables
            /\ ~Registered(req[t]) =>
                   /\ ~Registered(req[t])'
                   /\ Entry(req[t]) \notin DOMAIN datat'
            /\ pc[t] = "GetAllOk98" /\ ~Registered(req[t]) =>
                   /\ result'[t] = ResultRef(t)
                   /\ heap'[result'[t]] = EmptyMap
                   /\ ~ok'[t]
C20_Unregistered ==
    \A t \in Threads :
        pc[t] = "GetAllOk103" /\ ~ok[t] =>
            /\ Entry(req[t]) \notin DOMAIN data
            /\ Entry(req[t]) \notin DOMAIN datat
            /\ Deref(result[t]) = EmptyMap
C20_ReadsPure == []C20_Unregistered /\ [][C20_ReadStep]_vars

\* A GetAllOk has built its empty result for a request that is in no map,
\* while the other requests of the store have their tables and creation times.
C20_Witness ==
    \E t \in Threads :
        /\ pc[t] = "GetAllOk103" /\ ~ok[t]
        /\ heap[result[t]] = EmptyMap
        /\ Entry(req[t]) \notin (DOMAIN data) \cup (DOMAIN datat)
        /\ \A r \in Requests \ {req[t]} :
               Registered(r) /\ Tables[Entry(r)] # EmptyMap /\ Entry(r) \in DOMAIN datat

====
